---- MODULE Spec2Model ----
(***************************************************************************)
(* KumoTrail: the interrupt-and-timer core of a bare-metal RISC-V kernel   *)
(* (ESP32-C3).  The model covers                                           *)
(*   - the interrupt matrix driver      (src/kernel/interrupt.c),          *)
(*   - the clock/reset gate             (src/kernel/systemctl.c),          *)
(*   - the trap dispatcher              (src/kernel/trap.c),               *)
(*   - the timer driver                 (src/drivers/timer.c, timer.h),    *)
(*   - the UART transmit path           (src/drivers/uart.c, uart.h),      *)
(*   - the boot sequence                (src/app/main.c).                  *)
(*                                                                         *)
(* A 32-bit register is the set of the positions of its 1 bits, so that    *)
(* the whole width, bit 31 included, is represented exactly.               *)
(***************************************************************************)
EXTENDS Integers, Sequences, FiniteSets, TLC

VARIABLES
    INTERRUPT_CORE0_CPU_INT_ENABLE_REG, \* interrupt.c:43, a 32-bit word
    INTERRUPT_SOURCE_MAP_REG,           \* interrupt.c:37, source -> 32-bit word
    SYSTEM_PERIP_CLK_EN0_REG,           \* systemctl.c:20, a 32-bit word
    SYSTEM_PERIP_RST_EN0_REG,           \* systemctl.c:21, a 32-bit word
    timg,                               \* timer group 0, timer 0 (timer.c:27-65)
    timer_callback,                     \* the tick callback slot (timer.h:43)
    mstatus_MIE,                        \* trap.c:24, the MIE bit of mstatus
    mstatus_MPIE,                       \* the MIE bit saved at trap entry
    mtvec,                              \* trap.c:22, the trap vector
    mcause,                             \* trap.c:23, a 32-bit word
    pc,                                 \* position of main() (main.c:41-62)
    trap,                               \* position of the trap in progress
    arg,                                \* the argument of the calls under test
    hist,                               \* the last calls made, with the registers before each
    writes,                             \* register writes of the last operation, in order
    calls,                              \* calls made by the last operation, in order
    txfifo_cnt,                         \* uart.c:63-64, bytes held by the UART0 TX FIFO
    stack                               \* activations of uart_puts and trap_handler_c in progress

vars ==
    << INTERRUPT_CORE0_CPU_INT_ENABLE_REG, INTERRUPT_SOURCE_MAP_REG,
       SYSTEM_PERIP_CLK_EN0_REG, SYSTEM_PERIP_RST_EN0_REG, timg, timer_callback,
       mstatus_MIE, mstatus_MPIE, mtvec, mcause, pc, trap, arg, hist, writes, calls,
       txfifo_cnt, stack >>

(***************************************************************************)
(* 32-bit words and C integer arithmetic                                   *)
(***************************************************************************)
WordBits == 32

Bits ==
    0 .. (WordBits - 1)

INT_MIN ==
    (0 - 2147483647) - 1

\* The word of a natural number below 2^31.
NatToWord(n) ==
    { i \in 0 .. (WordBits - 2) : (n \div (2 ^ i)) % 2 = 1 }

\* Conversion of a C int to uint32_t (value modulo 2^32).
IntToWord(n) ==
    IF n >= 0
        THEN NatToWord(n)
        ELSE NatToWord((n - INT_MIN)) \cup {WordBits - 1}

\* The C expression (1 << k) of type int, for 0 <= k < 32.  For k = 31 the
\* result does not fit an int; the RISC-V GCC build yields INT_MIN (GCC defines
\* signed left shift as a shift of the two's complement representation).
IntShiftLeftOne_mut(k) ==
    IF k < WordBits - 1 THEN 2 ^ k ELSE 0

IntShiftLeftOne(k) ==
    IF k < WordBits - 1 THEN 2 ^ k ELSE INT_MIN

\* The C expression ~x on an int.
IntNot(x) ==
    (0 - 1) - x

WordOr(a, b) ==
    a \cup b

WordAnd(a, b) ==
    a \cap b

\* (1U << k) for 0 <= k < 32.
Bit(k) ==
    {k}

(***************************************************************************)
(* Interrupt matrix driver, src/kernel/interrupt.c                         *)
(***************************************************************************)
INTERRUPT_SOURCE_TIMG0_T0 == 32

\* The mapping registers the model holds: the timer's and its two neighbours.
MatrixSources ==
    { INTERRUPT_SOURCE_TIMG0_T0 - 1, INTERRUPT_SOURCE_TIMG0_T0,
      INTERRUPT_SOURCE_TIMG0_T0 + 1 }

\* interrupt_route: the new mapping registers.
interrupt_route(map, source, cpu_line) ==
    [map EXCEPT ![source] = IntToWord(cpu_line)]

\* interrupt_enable: the values written to INTERRUPT_CORE0_CPU_INT_ENABLE_REG.
interrupt_enable_mut(reg, cpu_line) ==
    IF cpu_line >= 0 /\ cpu_line <= WordBits
        THEN << WordOr(reg, IntToWord(IntShiftLeftOne(cpu_line % WordBits))) >>
        ELSE << >>

interrupt_enable(reg, cpu_line) ==
    IF cpu_line >= 0 /\ cpu_line < WordBits
        THEN << WordOr(reg, IntToWord(IntShiftLeftOne(cpu_line))) >>
        ELSE << >>

\* interrupt_disable: the values written to INTERRUPT_CORE0_CPU_INT_ENABLE_REG.
interrupt_disable_mut(reg, cpu_line) ==
    IF cpu_line >= 0 /\ cpu_line < WordBits
        THEN << WordAnd(reg, IntToWord(IntShiftLeftOne(cpu_line))) >>
        ELSE << >>

interrupt_disable(reg, cpu_line) ==
    IF cpu_line >= 0 /\ cpu_line < WordBits
        THEN << WordAnd(reg, IntToWord(IntNot(IntShiftLeftOne(cpu_line)))) >>
        ELSE << >>

\* The value a register holds after a sequence of writes to it.
AfterWrites(reg, values) ==
    IF values = << >> THEN reg ELSE values[Len(values)]

\* The write log of a sequence of writes to one register.
WriteLog(name, values) ==
    [i \in 1 .. Len(values) |-> << name, values[i] >>]

(***************************************************************************)
(* Clock/reset gate, src/kernel/systemctl.c                                *)
(***************************************************************************)
PERIPH_UART0 == 0
PERIPH_UART1 == 1
PERIPH_TIMG0 == 2
PERIPH_TIMG1 == 3

SYSTEM_UART_CLK_EN ==
    Bit(2)

SYSTEM_UART1_CLK_EN ==
    Bit(5)

SYSTEM_TIMERGROUP_CLK_EN ==
    Bit(13)

SYSTEM_TIMERGROUP1_CLK_EN ==
    Bit(15)

SYSTEM_UART_RST ==
    Bit(2)

SYSTEM_UART1_RST ==
    Bit(5)

SYSTEM_TIMERGROUP_RST ==
    Bit(13)

SYSTEM_TIMERGROUP1_RST ==
    Bit(15)

SYSTEM_UART_MEM_CLK_EN ==
    Bit(24)

\* The switch of sysctl_enable_clock: enable_bit stays 0 when no case matches.
enable_bit_of_mut(peripheral) ==
    CASE peripheral = PERIPH_UART0 -> SYSTEM_UART_CLK_EN
      [] peripheral = PERIPH_UART1 -> SYSTEM_UART1_CLK_EN
      [] peripheral = PERIPH_TIMG0 -> SYSTEM_TIMERGROUP_CLK_EN
      [] OTHER -> SYSTEM_TIMERGROUP1_CLK_EN

enable_bit_of(peripheral) ==
    CASE peripheral = PERIPH_UART0 -> SYSTEM_UART_CLK_EN
      [] peripheral = PERIPH_UART1 -> SYSTEM_UART1_CLK_EN
      [] peripheral = PERIPH_TIMG0 -> SYSTEM_TIMERGROUP_CLK_EN
      [] peripheral = PERIPH_TIMG1 -> SYSTEM_TIMERGROUP1_CLK_EN
      [] OTHER -> {}

\* The switch of sysctl_reset_peripheral.
reset_bit_of(peripheral) ==
    CASE peripheral = PERIPH_UART0 -> SYSTEM_UART_RST
      [] peripheral = PERIPH_UART1 -> SYSTEM_UART1_RST
      [] peripheral = PERIPH_TIMG0 -> SYSTEM_TIMERGROUP_RST
      [] peripheral = PERIPH_TIMG1 -> SYSTEM_TIMERGROUP1_RST
      [] OTHER -> {}

\* sysctl_enable_clock: the values written to SYSTEM_PERIP_CLK_EN0_REG, in order.
sysctl_enable_clock_mut(reg, peripheral) ==
    LET enable_bit == enable_bit_of(peripheral)
    IN  IF enable_bit # {}
            THEN << (reg \ enable_bit) \cup (enable_bit \ reg) >>
            ELSE << >>

sysctl_enable_clock(reg, peripheral) ==
    LET enable_bit == enable_bit_of(peripheral)
    IN  IF enable_bit # {} THEN << WordOr(reg, enable_bit) >> ELSE << >>

\* sysctl_reset_peripheral: the values written to SYSTEM_PERIP_RST_EN0_REG, in
\* order; the second read-modify-write reads what the first one wrote.
sysctl_reset_peripheral_mut(reg, peripheral) ==
    LET reset_bit == reset_bit_of(peripheral)
    IN  IF reset_bit # {}
            THEN << WordAnd(reg, Bits \ reset_bit), WordOr(reg, reset_bit) >>
            ELSE << >>

sysctl_reset_peripheral(reg, peripheral) ==
    LET reset_bit == reset_bit_of(peripheral)
        asserted  == WordOr(reg, reset_bit)
    IN  IF reset_bit # {}
            THEN << asserted, WordAnd(asserted, Bits \ reset_bit) >>
            ELSE << >>

(***************************************************************************)
(* Timer driver, src/drivers/timer.c and src/drivers/include/timer.h       *)
(*                                                                         *)
(* timg holds the bits of timer group 0, timer 0 that the tick depends on: *)
(*   en        counter enable              (TIMG_0_T0CONFIG_REG)           *)
(*   alarm_en  alarm enable                (TIMG_0_T0CONFIG_REG)           *)
(*   int_ena   interrupt enable            (TIMG_0_INT_ENA_TIMERS_REG)     *)
(*   int_raw   raw interrupt status        (TIMG_0_INT_RAW_TIMERS_REG)     *)
(***************************************************************************)
NULL ==
    "NULL"

\* timer_init: its register writes, in order.  The body in timer.c is empty.
timer_init_writes ==
    << >>

\* timer_set_callback: the new content of the callback slot.
timer_set_callback_torn(slot, callback) ==
    IF slot = callback THEN callback ELSE "torn"

timer_set_callback_mut(slot, callback) ==
    IF slot = NULL THEN callback ELSE slot

timer_set_callback(slot, callback) ==
    callback

\* The calls a tick callback makes when it is invoked.
callback_calls(callback) ==
    IF callback = "kernel_tick_handler"
        THEN << << "kernel_tick_handler", "" >>, << "uart_puts", "Tick!\n" >> >>
        ELSE << << callback, "" >> >>

\* timer_handle_interrupt: the timer bits it leaves.
timer_handle_interrupt_timg_mut(t) ==
    [t EXCEPT !.int_raw = FALSE]

timer_handle_interrupt_timg(t) ==
    [t EXCEPT !.int_raw = FALSE, !.alarm_en = TRUE]

\* timer_handle_interrupt: its register writes, in order.
timer_handle_interrupt_writes ==
    << << "TIMG_0_WDTFEED_REG", Bit(0) >>,
       << "TIMG_0_INT_CLR_TIMERS_REG", Bit(0) >>,
       << "TIMG_0_T0CONFIG_REG", {} >> >>

\* timer_handle_interrupt: the calls it makes, in order.
timer_handle_interrupt_calls(slot) ==
    IF slot # NULL THEN callback_calls(slot) ELSE << >>

(***************************************************************************)
(* Trap dispatcher, src/kernel/trap.c                                      *)
(***************************************************************************)
TIMER_INTERRUPT_ID == 6

\* 0x80000000
INTERRUPT_BIT ==
    Bit(WordBits - 1)

\* 0x7FFFFFFF
INTERRUPT_ID_MASK ==
    NatToWord(2147483647)

\* trap_handler_c: the branch taken for a value of mcause.
trap_handler_c_path_mut(cause) ==
    IF WordAnd(cause, INTERRUPT_BIT) # {}
        THEN IF cause = NatToWord(TIMER_INTERRUPT_ID) THEN "timer" ELSE "unknown"
        ELSE "exception"

trap_handler_c_path(cause) ==
    IF WordAnd(cause, INTERRUPT_BIT) # {}
        THEN LET interrupt_id == WordAnd(cause, INTERRUPT_ID_MASK)
             IN  IF interrupt_id = NatToWord(TIMER_INTERRUPT_ID)
                     THEN "timer"
                     ELSE "unknown"
        ELSE "exception"

\* trap_handler_c: the calls it makes, in order.
trap_handler_c_calls(cause, slot) ==
    CASE trap_handler_c_path(cause) = "timer" ->
            << << "timer_handle_interrupt", "" >> >> \o timer_handle_interrupt_calls(slot)
      [] trap_handler_c_path(cause) = "unknown" ->
            << << "uart_puts", "Unknown interrupt occurred\n" >> >>
      [] OTHER ->
            << << "uart_puts", "An exception occurred\n" >> >>

(***************************************************************************)
(* UART driver, src/drivers/uart.c                                         *)
(*                                                                         *)
(* stack holds the activations in progress, innermost last.  A frame is    *)
(*   fn          "uart_puts" or "trap_handler_c"                           *)
(*   at          the position in the function                              *)
(*   s           the string being sent (uart_puts)                         *)
(*   i           the number of characters of s passed to uart_putc         *)
(* The local variable fifo_count of uart_putc lives within one read of the *)
(* status register and the test that follows it.                           *)
(***************************************************************************)
UART_TXFIFO_CNT_MASK == 511
UART_FIFO_DEPTH == 128

UART_FIFO_THRESHOLD_mut ==
    UART_FIFO_DEPTH

UART_FIFO_THRESHOLD ==
    UART_FIFO_DEPTH - 1

Frame(fn, at, s) ==
    [fn |-> fn, at |-> at, s |-> s, i |-> 0]

\* uart_puts(s) is entered: a null pointer or an empty string returns at once.
uart_puts_frame(s) ==
    Frame("uart_puts", IF s = NULL \/ Len(s) = 0 THEN "return" ELSE "read", s)

\* uart_putc, the loop body and its test: fifo_count is read from the TX FIFO
\* count field of UART_STATUS_REG, and the loop repeats while it is at or
\* above the threshold.
uart_putc_read(f, occupancy) ==
    LET fifo_count == occupancy % (UART_TXFIFO_CNT_MASK + 1)
    IN  [f EXCEPT !.at = IF fifo_count >= UART_FIFO_THRESHOLD THEN "read" ELSE "write"]

\* uart_putc, the write of the character to UART_FIFO_REG, and the advance of
\* uart_puts to the next character.
uart_putc_write_mut(f) ==
    [f EXCEPT !.at = "read"]

uart_putc_write(f) ==
    [f EXCEPT !.i = f.i + 1,
              !.at = IF f.i + 1 < Len(f.s) THEN "read" ELSE "return"]

\* trap_handler_c and what it calls write no CSR: the MIE bit as they leave it.
trap_handler_c_MIE_mut(mie) ==
    TRUE

trap_handler_c_MIE(mie) ==
    mie

\* timer_handle_interrupt, steps (a) and (b): the status bit is cleared.
timer_clear_interrupt(t) ==
    [t EXCEPT !.int_raw = FALSE]

\* timer_handle_interrupt, step (d): the alarm is armed again.
timer_rearm_alarm(t) ==
    [t EXCEPT !.alarm_en = TRUE]

(***************************************************************************)
(* Boot sequence, src/app/main.c                                           *)
(***************************************************************************)
\* The calls of main(), in order, then the idle loop.
MainSequence_mut ==
    << "uart_init", "timer_init", "enable_interrupts", "trap_init",
       "timer_set_callback", "uart_puts", "idle" >>

MainSequence ==
    << "uart_init", "timer_init", "trap_init", "timer_set_callback",
       "enable_interrupts", "uart_puts", "idle" >>

\* The position of a statement of main().
MainIndex(stmt) ==
    CHOOSE i \in 1 .. Len(MainSequence) : MainSequence[i] = stmt

\* The statement after a statement of main(); the idle loop follows itself.
main_next(stmt) ==
    IF MainIndex(stmt) < Len(MainSequence)
        THEN MainSequence[MainIndex(stmt) + 1]
        ELSE stmt

\* uart_init, part 1 and 2: the values written to SYSTEM_PERIP_CLK_EN0_REG.
uart_init_clk_writes(reg) ==
    << WordOr(reg, WordOr(SYSTEM_UART_CLK_EN, SYSTEM_UART_MEM_CLK_EN)) >>

\* uart_init, part 2: the values written to SYSTEM_PERIP_RST_EN0_REG.
uart_init_rst_writes(reg) ==
    << WordOr(reg, SYSTEM_UART_RST),
       WordAnd(WordOr(reg, SYSTEM_UART_RST), Bits \ SYSTEM_UART_RST) >>

(***************************************************************************)
(* Bounds and input values                                                 *)
(***************************************************************************)
LineMargin == 2
PeriphMargin == 2
HistLen == 3
MaxCauseId == 8

\* cpu_line arguments: every line, LineMargin values on either side, and the
\* two extreme values of an int.
LineRange ==
    ((0 - LineMargin) .. ((WordBits - 1) + LineMargin)) \cup {INT_MIN, IntNot(INT_MIN)}

\* peripheral arguments: the enumeration and PeriphMargin values on either side.
PeriphRange ==
    (PERIPH_UART0 - PeriphMargin) .. (PERIPH_TIMG1 + PeriphMargin)

\* Prior values of a 32-bit register.
PriorWords ==
    { {}, Bits, Bits \ Bit(WordBits - 1), Bit(6), NatToWord(6),
      {2, 5, 13, 15, 24}, NatToWord(1431655765) }

\* Prior values of the two system registers in the boot sequence.
PriorSysWords ==
    { {}, Bits }

\* Values of mcause: the low 31 bits are an identifier 0 .. MaxCauseId, the
\* timer's identifier with one higher bit set, or all ones; each with the
\* interrupt bit clear and set.
CauseWords ==
    LET ids == { NatToWord(n) : n \in 0 .. MaxCauseId }
        low == ids \cup { WordOr(NatToWord(TIMER_INTERRUPT_ID), Bit(WordBits - 2)),
                          WordOr(NatToWord(TIMER_INTERRUPT_ID), Bit(16)),
                          NatToWord(2147483647) }
    IN  low \cup { WordOr(w, INTERRUPT_BIT) : w \in low }

Callbacks ==
    { NULL, "cb_A", "cb_B" }

TimgStates ==
    [en : BOOLEAN, alarm_en : BOOLEAN, int_ena : BOOLEAN, int_raw : BOOLEAN]

TimgReset ==
    [en |-> FALSE, alarm_en |-> FALSE, int_ena |-> FALSE, int_raw |-> FALSE]

\* The timer counting, its alarm armed and its interrupt unmasked.
TimgArmed ==
    [en |-> TRUE, alarm_en |-> TRUE, int_ena |-> TRUE, int_raw |-> FALSE]

(***************************************************************************)
(* State                                                                   *)
(***************************************************************************)
\* The registers and the callback slot, as recorded before each call.
Regs ==
    [ ie     |-> INTERRUPT_CORE0_CPU_INT_ENABLE_REG,
      map    |-> INTERRUPT_SOURCE_MAP_REG,
      clk    |-> SYSTEM_PERIP_CLK_EN0_REG,
      rst    |-> SYSTEM_PERIP_RST_EN0_REG,
      timg   |-> timg,
      cb     |-> timer_callback,
      mcause |-> mcause ]

Event(op, n, name) ==
    [op |-> op, arg |-> n, name |-> name, pre |-> Regs]

\* hist keeps the last HistLen events.
Push(h, e) ==
    IF Len(h) < HistLen THEN Append(h, e) ELSE Append(Tail(h), e)

\* The interrupt status bit: raw status masked by the interrupt enable.
IntSt(t) ==
    t.int_raw /\ t.int_ena

(***************************************************************************)
(* Calls of the interrupt matrix driver                                    *)
(***************************************************************************)
Call_interrupt_enable ==
    /\ pc = "router"
    /\ trap = "none"
    /\ LET values == interrupt_enable(INTERRUPT_CORE0_CPU_INT_ENABLE_REG, arg)
       IN  /\ INTERRUPT_CORE0_CPU_INT_ENABLE_REG' =
                  AfterWrites(INTERRUPT_CORE0_CPU_INT_ENABLE_REG, values)
           /\ writes' = WriteLog("INTERRUPT_CORE0_CPU_INT_ENABLE_REG", values)
    /\ hist' = Push(hist, Event("interrupt_enable", arg, ""))
    /\ calls' = << >>
    /\ UNCHANGED << txfifo_cnt, stack, INTERRUPT_SOURCE_MAP_REG, SYSTEM_PERIP_CLK_EN0_REG,
                    SYSTEM_PERIP_RST_EN0_REG, timg, timer_callback, mstatus_MIE,
                    mstatus_MPIE, mtvec, mcause, pc, trap, arg >>

Call_interrupt_disable ==
    /\ pc = "router"
    /\ trap = "none"
    /\ LET values == interrupt_disable(INTERRUPT_CORE0_CPU_INT_ENABLE_REG, arg)
       IN  /\ INTERRUPT_CORE0_CPU_INT_ENABLE_REG' =
                  AfterWrites(INTERRUPT_CORE0_CPU_INT_ENABLE_REG, values)
           /\ writes' = WriteLog("INTERRUPT_CORE0_CPU_INT_ENABLE_REG", values)
    /\ hist' = Push(hist, Event("interrupt_disable", arg, ""))
    /\ calls' = << >>
    /\ UNCHANGED << txfifo_cnt, stack, INTERRUPT_SOURCE_MAP_REG, SYSTEM_PERIP_CLK_EN0_REG,
                    SYSTEM_PERIP_RST_EN0_REG, timg, timer_callback, mstatus_MIE,
                    mstatus_MPIE, mtvec, mcause, pc, trap, arg >>

Call_interrupt_route ==
    /\ pc = "router"
    /\ trap = "none"
    /\ INTERRUPT_SOURCE_MAP_REG' =
           interrupt_route(INTERRUPT_SOURCE_MAP_REG, INTERRUPT_SOURCE_TIMG0_T0, arg)
    /\ writes' = << << "INTERRUPT_SOURCE_MAP_REG",
                      INTERRUPT_SOURCE_MAP_REG'[INTERRUPT_SOURCE_TIMG0_T0] >> >>
    /\ hist' = Push(hist, Event("interrupt_route", arg, ""))
    /\ calls' = << >>
    /\ UNCHANGED << txfifo_cnt, stack, INTERRUPT_CORE0_CPU_INT_ENABLE_REG, SYSTEM_PERIP_CLK_EN0_REG,
                    SYSTEM_PERIP_RST_EN0_REG, timg, timer_callback, mstatus_MIE,
                    mstatus_MPIE, mtvec, mcause, pc, trap, arg >>

\* The driver's functions called with one cpu_line, in any order, from any
\* prior value of the registers.
InitRouter ==
    /\ INTERRUPT_CORE0_CPU_INT_ENABLE_REG \in PriorWords
    /\ \E w \in PriorWords : INTERRUPT_SOURCE_MAP_REG = [s \in MatrixSources |-> w]
    /\ SYSTEM_PERIP_CLK_EN0_REG = {}
    /\ SYSTEM_PERIP_RST_EN0_REG = {}
    /\ timg = TimgReset
    /\ timer_callback = NULL
    /\ mstatus_MIE = FALSE
    /\ mstatus_MPIE = FALSE
    /\ mtvec = "unset"
    /\ mcause = {}
    /\ pc = "router"
    /\ trap = "none"
    /\ arg \in LineRange
    /\ hist = << >>
    /\ writes = << >>
    /\ calls = << >>
    /\ txfifo_cnt = 0
    /\ stack = << >>

NextRouter ==
    \/ Call_interrupt_enable
    \/ Call_interrupt_disable
    \/ Call_interrupt_route

SpecRouter ==
    InitRouter /\ [][NextRouter]_vars

(***************************************************************************)
(* Calls of the clock/reset gate                                           *)
(***************************************************************************)
Call_sysctl_enable_clock ==
    /\ pc = "sysctl"
    /\ LET values == sysctl_enable_clock(SYSTEM_PERIP_CLK_EN0_REG, arg)
       IN  /\ SYSTEM_PERIP_CLK_EN0_REG' = AfterWrites(SYSTEM_PERIP_CLK_EN0_REG, values)
           /\ writes' = WriteLog("SYSTEM_PERIP_CLK_EN0_REG", values)
    /\ hist' = Push(hist, Event("sysctl_enable_clock", arg, ""))
    /\ calls' = << >>
    /\ UNCHANGED << txfifo_cnt, stack, INTERRUPT_CORE0_CPU_INT_ENABLE_REG, INTERRUPT_SOURCE_MAP_REG,
                    SYSTEM_PERIP_RST_EN0_REG, timg, timer_callback, mstatus_MIE,
                    mstatus_MPIE, mtvec, mcause, pc, trap, arg >>

Call_sysctl_reset_peripheral ==
    /\ pc = "sysctl"
    /\ LET values == sysctl_reset_peripheral(SYSTEM_PERIP_RST_EN0_REG, arg)
       IN  /\ SYSTEM_PERIP_RST_EN0_REG' = AfterWrites(SYSTEM_PERIP_RST_EN0_REG, values)
           /\ writes' = WriteLog("SYSTEM_PERIP_RST_EN0_REG", values)
    /\ hist' = Push(hist, Event("sysctl_reset_peripheral", arg, ""))
    /\ calls' = << >>
    /\ UNCHANGED << txfifo_cnt, stack, INTERRUPT_CORE0_CPU_INT_ENABLE_REG, INTERRUPT_SOURCE_MAP_REG,
                    SYSTEM_PERIP_CLK_EN0_REG, timg, timer_callback, mstatus_MIE,
                    mstatus_MPIE, mtvec, mcause, pc, trap, arg >>

\* The gate's functions called with one peripheral value, in any order, from
\* any prior value of the registers.
InitSysctl ==
    /\ INTERRUPT_CORE0_CPU_INT_ENABLE_REG = {}
    /\ INTERRUPT_SOURCE_MAP_REG = [s \in MatrixSources |-> {}]
    /\ SYSTEM_PERIP_CLK_EN0_REG \in PriorWords
    /\ SYSTEM_PERIP_RST_EN0_REG \in PriorWords
    /\ timg = TimgReset
    /\ timer_callback = NULL
    /\ mstatus_MIE = FALSE
    /\ mstatus_MPIE = FALSE
    /\ mtvec = "unset"
    /\ mcause = {}
    /\ pc = "sysctl"
    /\ trap = "none"
    /\ arg \in PeriphRange
    /\ hist = << >>
    /\ writes = << >>
    /\ calls = << >>
    /\ txfifo_cnt = 0
    /\ stack = << >>

NextSysctl ==
    \/ Call_sysctl_enable_clock
    \/ Call_sysctl_reset_peripheral

SpecSysctl ==
    InitSysctl /\ [][NextSysctl]_vars

(***************************************************************************)
(* Hardware: the timer alarm and the delivery of its interrupt             *)
(***************************************************************************)
\* The CPU line a mapping register selects: its low five bits.
MappedLine(w) ==
    LET b(i) == IF i \in w THEN 2 ^ i ELSE 0
    IN  b(0) + b(1) + b(2) + b(3) + b(4)

\* The alarm fires: the raw interrupt status is raised and the hardware clears
\* alarm enable; the counter reloads and keeps running.  h is hist after it.
TimerAlarm(h) ==
    /\ timg.en /\ timg.alarm_en
    /\ timg' = [timg EXCEPT !.int_raw = TRUE, !.alarm_en = FALSE]
    /\ hist' = h
    /\ UNCHANGED << txfifo_cnt, stack, INTERRUPT_CORE0_CPU_INT_ENABLE_REG, INTERRUPT_SOURCE_MAP_REG,
                    SYSTEM_PERIP_CLK_EN0_REG, SYSTEM_PERIP_RST_EN0_REG,
                    timer_callback, mstatus_MIE, mstatus_MPIE, mtvec, mcause, pc,
                    trap, arg, writes, calls >>

\* The alarm fires and is recorded in hist.
HW_TimerAlarm ==
    TimerAlarm(Push(hist, Event("hw_alarm", 0, "")))

\* The alarm fires, unrecorded.
HW_TimerAlarmStep ==
    TimerAlarm(hist)

\* The timer's interrupt is pending on the CPU line it is routed to.
TimerLinePending ==
    /\ IntSt(timg)
    /\ MappedLine(INTERRUPT_SOURCE_MAP_REG[INTERRUPT_SOURCE_TIMG0_T0])
           \in INTERRUPT_CORE0_CPU_INT_ENABLE_REG

\* Trap entry: mcause is written, MIE is saved and cleared, and control goes
\* to the trap vector.
TrapEntry(cause) ==
    /\ trap = "none"
    /\ mcause' = cause
    /\ mstatus_MPIE' = mstatus_MIE
    /\ mstatus_MIE' = FALSE
    /\ trap' = IF mtvec = "_trap_handler" THEN "entered" ELSE "wild"
    /\ UNCHANGED << txfifo_cnt, stack, INTERRUPT_CORE0_CPU_INT_ENABLE_REG, INTERRUPT_SOURCE_MAP_REG,
                    SYSTEM_PERIP_CLK_EN0_REG, SYSTEM_PERIP_RST_EN0_REG, timg,
                    timer_callback, mtvec, pc, arg, hist, writes, calls >>

\* The CPU takes the timer's interrupt.
HW_Interrupt ==
    /\ mstatus_MIE
    /\ TimerLinePending
    /\ TrapEntry(WordOr(INTERRUPT_BIT,
           NatToWord(MappedLine(INTERRUPT_SOURCE_MAP_REG[INTERRUPT_SOURCE_TIMG0_T0]))))

\* trap_handler_c, called by the entry stub.
Run_trap_handler_c ==
    /\ trap = "entered"
    /\ IF trap_handler_c_path(mcause) = "timer"
           THEN /\ timg' = timer_handle_interrupt_timg(timg)
                /\ writes' = timer_handle_interrupt_writes
           ELSE /\ timg' = timg
                /\ writes' = << >>
    /\ calls' = trap_handler_c_calls(mcause, timer_callback)
    /\ hist' = Push(hist, Event("trap_handler_c", 0, ""))
    /\ trap' = "done"
    /\ UNCHANGED << txfifo_cnt, stack, INTERRUPT_CORE0_CPU_INT_ENABLE_REG, INTERRUPT_SOURCE_MAP_REG,
                    SYSTEM_PERIP_CLK_EN0_REG, SYSTEM_PERIP_RST_EN0_REG,
                    timer_callback, mstatus_MIE, mstatus_MPIE, mtvec, mcause, pc,
                    arg >>

\* The exit stub returns to the interrupted context and restores MIE.
TrapReturn ==
    /\ trap = "done"
    /\ trap' = "none"
    /\ mstatus_MIE' = mstatus_MPIE
    /\ UNCHANGED << txfifo_cnt, stack, INTERRUPT_CORE0_CPU_INT_ENABLE_REG, INTERRUPT_SOURCE_MAP_REG,
                    SYSTEM_PERIP_CLK_EN0_REG, SYSTEM_PERIP_RST_EN0_REG, timg,
                    timer_callback, mstatus_MPIE, mtvec, mcause, pc, arg, hist,
                    writes, calls >>

(***************************************************************************)
(* Calls of the interrupt matrix driver while the timer runs               *)
(***************************************************************************)
\* Values of the timer's mapping register: lines 6 and 31.
DeliveryMaps ==
    { NatToWord(TIMER_INTERRUPT_ID), Bits }

\* Prior values of the CPU-interrupt-enable register.
DeliveryEnables ==
    { {}, Bits }

\* The trap vector is installed, the tick callback registered and interrupts
\* are globally enabled; the timer counts with its interrupt unmasked and none
\* pending, and is routed to a CPU line; the driver is called with one
\* cpu_line, in any order.
InitDelivery ==
    /\ INTERRUPT_CORE0_CPU_INT_ENABLE_REG \in DeliveryEnables
    /\ \E w \in DeliveryMaps : INTERRUPT_SOURCE_MAP_REG = [s \in MatrixSources |-> w]
    /\ SYSTEM_PERIP_CLK_EN0_REG = {}
    /\ SYSTEM_PERIP_RST_EN0_REG = {}
    /\ timg \in { t \in TimgStates : t.en /\ t.int_ena /\ ~t.int_raw }
    /\ timer_callback = "kernel_tick_handler"
    /\ mstatus_MIE = TRUE
    /\ mstatus_MPIE = FALSE
    /\ mtvec = "_trap_handler"
    /\ mcause = {}
    /\ pc = "router"
    /\ trap = "none"
    /\ arg \in LineRange
    /\ hist = << >>
    /\ writes = << >>
    /\ calls = << >>
    /\ txfifo_cnt = 0
    /\ stack = << >>

NextDelivery ==
    \/ Call_interrupt_enable
    \/ Call_interrupt_disable
    \/ Call_interrupt_route
    \/ HW_TimerAlarm
    \/ HW_Interrupt
    \/ Run_trap_handler_c
    \/ TrapReturn

SpecDelivery ==
    InitDelivery /\ [][NextDelivery]_vars

(***************************************************************************)
(* Calls of the timer driver and traps of any cause                        *)
(***************************************************************************)
Call_timer_set_callback ==
    /\ pc = "trap"
    /\ trap = "none"
    /\ \E callback \in Callbacks :
          /\ timer_callback' = timer_set_callback(timer_callback, callback)
          /\ hist' = Push(hist, Event("timer_set_callback", 0, callback))
    /\ writes' = << >>
    /\ calls' = << >>
    /\ UNCHANGED << txfifo_cnt, stack, INTERRUPT_CORE0_CPU_INT_ENABLE_REG, INTERRUPT_SOURCE_MAP_REG,
                    SYSTEM_PERIP_CLK_EN0_REG, SYSTEM_PERIP_RST_EN0_REG, timg,
                    mstatus_MIE, mstatus_MPIE, mtvec, mcause, pc, trap, arg >>

\* A trap is taken with the cause under test, which mcause holds from the start.
Trap_any_cause ==
    /\ pc = "trap"
    /\ TrapEntry(mcause)

\* trap_handler_c entered with any value of mcause, the callback slot set in
\* any order, the timer in any state.
InitTrap ==
    /\ INTERRUPT_CORE0_CPU_INT_ENABLE_REG = {}
    /\ INTERRUPT_SOURCE_MAP_REG = [s \in MatrixSources |-> {}]
    /\ SYSTEM_PERIP_CLK_EN0_REG = {}
    /\ SYSTEM_PERIP_RST_EN0_REG = {}
    /\ timg \in TimgStates
    /\ timer_callback = NULL
    /\ mstatus_MIE = TRUE
    /\ mstatus_MPIE = FALSE
    /\ mtvec = "_trap_handler"
    /\ mcause \in CauseWords
    /\ pc = "trap"
    /\ trap = "none"
    /\ arg = 0
    /\ hist = << >>
    /\ writes = << >>
    /\ calls = << >>
    /\ txfifo_cnt = 0
    /\ stack = << >>

NextTrap ==
    \/ Call_timer_set_callback
    \/ Trap_any_cause
    \/ Run_trap_handler_c
    \/ TrapReturn
    \/ HW_TimerAlarm

SpecTrap ==
    InitTrap /\ [][NextTrap]_vars

(***************************************************************************)
(* timer_set_callback called while the timer's interrupt is live           *)
(***************************************************************************)
\* timer_set_callback is entered with the callback to register.
SetCb_call ==
    /\ pc = "timer_set_callback:call"
    /\ trap = "none"
    /\ \E callback \in Callbacks :
          /\ arg' = callback
          /\ hist' = Push(hist, Event("timer_set_callback", 0, callback))
    /\ pc' = "timer_set_callback:store"
    /\ writes' = << >>
    /\ calls' = << >>
    /\ UNCHANGED << txfifo_cnt, stack, INTERRUPT_CORE0_CPU_INT_ENABLE_REG, INTERRUPT_SOURCE_MAP_REG,
                    SYSTEM_PERIP_CLK_EN0_REG, SYSTEM_PERIP_RST_EN0_REG, timg,
                    timer_callback, mstatus_MIE, mstatus_MPIE, mtvec, mcause, trap >>

\* The store of the pointer into the slot: one aligned word write.
SetCb_store ==
    /\ pc = "timer_set_callback:store"
    /\ trap = "none"
    /\ timer_callback' = timer_set_callback(timer_callback, arg)
    /\ pc' = "timer_set_callback:return"
    /\ UNCHANGED << txfifo_cnt, stack, INTERRUPT_CORE0_CPU_INT_ENABLE_REG, INTERRUPT_SOURCE_MAP_REG,
                    SYSTEM_PERIP_CLK_EN0_REG, SYSTEM_PERIP_RST_EN0_REG, timg,
                    mstatus_MIE, mstatus_MPIE, mtvec, mcause, trap, arg, hist,
                    writes, calls >>

SetCb_return ==
    /\ pc = "timer_set_callback:return"
    /\ trap = "none"
    /\ pc' = "timer_set_callback:call"
    /\ UNCHANGED << txfifo_cnt, stack, INTERRUPT_CORE0_CPU_INT_ENABLE_REG, INTERRUPT_SOURCE_MAP_REG,
                    SYSTEM_PERIP_CLK_EN0_REG, SYSTEM_PERIP_RST_EN0_REG, timg,
                    timer_callback, mstatus_MIE, mstatus_MPIE, mtvec, mcause, trap,
                    arg, hist, writes, calls >>

\* Interrupts are globally enabled, the timer is running and routed to the
\* enabled CPU line 6; normal context registers callbacks one after another.
InitSetCallback ==
    /\ INTERRUPT_CORE0_CPU_INT_ENABLE_REG \in { Bit(TIMER_INTERRUPT_ID), Bits }
    /\ INTERRUPT_SOURCE_MAP_REG =
           [s \in MatrixSources |-> NatToWord(TIMER_INTERRUPT_ID)]
    /\ SYSTEM_PERIP_CLK_EN0_REG = {}
    /\ SYSTEM_PERIP_RST_EN0_REG = {}
    /\ timg \in { t \in TimgStates : t.en /\ t.int_ena }
    /\ timer_callback \in Callbacks
    /\ mstatus_MIE = TRUE
    /\ mstatus_MPIE = FALSE
    /\ mtvec = "_trap_handler"
    /\ mcause = {}
    /\ pc = "timer_set_callback:call"
    /\ trap = "none"
    /\ arg = NULL
    /\ hist = << >>
    /\ writes = << >>
    /\ calls = << >>
    /\ txfifo_cnt = 0
    /\ stack = << >>

NextSetCallback ==
    \/ SetCb_call
    \/ SetCb_store
    \/ SetCb_return
    \/ HW_TimerAlarm
    \/ HW_Interrupt
    \/ Run_trap_handler_c
    \/ TrapReturn

SpecSetCallback ==
    InitSetCallback /\ [][NextSetCallback]_vars

(***************************************************************************)
(* The program: main() and the traps the hardware delivers                 *)
(***************************************************************************)
\* uart_init: its writes to the two system registers.  The UART's own
\* registers (uart.c:101-135) are not part of the state.
Main_uart_init ==
    /\ pc = "uart_init"
    /\ trap = "none"
    /\ LET clk == uart_init_clk_writes(SYSTEM_PERIP_CLK_EN0_REG)
           rst == uart_init_rst_writes(SYSTEM_PERIP_RST_EN0_REG)
       IN  /\ SYSTEM_PERIP_CLK_EN0_REG' = AfterWrites(SYSTEM_PERIP_CLK_EN0_REG, clk)
           /\ SYSTEM_PERIP_RST_EN0_REG' = AfterWrites(SYSTEM_PERIP_RST_EN0_REG, rst)
           /\ writes' = WriteLog("SYSTEM_PERIP_CLK_EN0_REG", clk)
                            \o WriteLog("SYSTEM_PERIP_RST_EN0_REG", rst)
    /\ hist' = Push(hist, Event("uart_init", 0, ""))
    /\ calls' = << >>
    /\ pc' = main_next(pc)
    /\ txfifo_cnt' = 0
    /\ UNCHANGED << stack, INTERRUPT_CORE0_CPU_INT_ENABLE_REG, INTERRUPT_SOURCE_MAP_REG,
                    timg, timer_callback, mstatus_MIE, mstatus_MPIE, mtvec, mcause,
                    trap, arg >>

Main_timer_init ==
    /\ pc = "timer_init"
    /\ trap = "none"
    /\ writes' = timer_init_writes
    /\ hist' = Push(hist, Event("timer_init", 0, ""))
    /\ calls' = << >>
    /\ pc' = main_next(pc)
    /\ UNCHANGED << txfifo_cnt, stack, INTERRUPT_CORE0_CPU_INT_ENABLE_REG, INTERRUPT_SOURCE_MAP_REG,
                    SYSTEM_PERIP_CLK_EN0_REG, SYSTEM_PERIP_RST_EN0_REG, timg,
                    timer_callback, mstatus_MIE, mstatus_MPIE, mtvec, mcause, trap,
                    arg >>

Main_trap_init ==
    /\ pc = "trap_init"
    /\ trap = "none"
    /\ mtvec' = "_trap_handler"
    /\ hist' = Push(hist, Event("trap_init", 0, ""))
    /\ writes' = << >>
    /\ calls' = << >>
    /\ pc' = main_next(pc)
    /\ UNCHANGED << txfifo_cnt, stack, INTERRUPT_CORE0_CPU_INT_ENABLE_REG, INTERRUPT_SOURCE_MAP_REG,
                    SYSTEM_PERIP_CLK_EN0_REG, SYSTEM_PERIP_RST_EN0_REG, timg,
                    timer_callback, mstatus_MIE, mstatus_MPIE, mcause, trap, arg >>

Main_timer_set_callback ==
    /\ pc = "timer_set_callback"
    /\ trap = "none"
    /\ timer_callback' = timer_set_callback(timer_callback, "kernel_tick_handler")
    /\ hist' = Push(hist, Event("timer_set_callback", 0, "kernel_tick_handler"))
    /\ writes' = << >>
    /\ calls' = << >>
    /\ pc' = main_next(pc)
    /\ UNCHANGED << txfifo_cnt, stack, INTERRUPT_CORE0_CPU_INT_ENABLE_REG, INTERRUPT_SOURCE_MAP_REG,
                    SYSTEM_PERIP_CLK_EN0_REG, SYSTEM_PERIP_RST_EN0_REG, timg,
                    mstatus_MIE, mstatus_MPIE, mtvec, mcause, trap, arg >>

Main_enable_interrupts ==
    /\ pc = "enable_interrupts"
    /\ trap = "none"
    /\ mstatus_MIE' = TRUE
    /\ hist' = Push(hist, Event("enable_interrupts", 0, ""))
    /\ writes' = << >>
    /\ calls' = << >>
    /\ pc' = main_next(pc)
    /\ UNCHANGED << txfifo_cnt, stack, INTERRUPT_CORE0_CPU_INT_ENABLE_REG, INTERRUPT_SOURCE_MAP_REG,
                    SYSTEM_PERIP_CLK_EN0_REG, SYSTEM_PERIP_RST_EN0_REG, timg,
                    timer_callback, mstatus_MPIE, mtvec, mcause, trap, arg >>

Main_uart_puts ==
    /\ pc = "uart_puts"
    /\ trap = "none"
    /\ calls' = << << "uart_puts", "KumoTrail has booted. Interrupts are enabled.\n" >> >>
    /\ hist' = Push(hist, Event("uart_puts", 0, ""))
    /\ writes' = << >>
    /\ pc' = main_next(pc)
    /\ UNCHANGED << txfifo_cnt, stack, INTERRUPT_CORE0_CPU_INT_ENABLE_REG, INTERRUPT_SOURCE_MAP_REG,
                    SYSTEM_PERIP_CLK_EN0_REG, SYSTEM_PERIP_RST_EN0_REG, timg,
                    timer_callback, mstatus_MIE, mstatus_MPIE, mtvec, mcause, trap,
                    arg >>

\* while (1) { }
Main_idle ==
    /\ pc = "idle"
    /\ trap = "none"
    /\ pc' = main_next(pc)
    /\ UNCHANGED << txfifo_cnt, stack, INTERRUPT_CORE0_CPU_INT_ENABLE_REG, INTERRUPT_SOURCE_MAP_REG,
                    SYSTEM_PERIP_CLK_EN0_REG, SYSTEM_PERIP_RST_EN0_REG, timg,
                    timer_callback, mstatus_MIE, mstatus_MPIE, mtvec, mcause, trap,
                    arg, hist, writes, calls >>

Main ==
    \/ Main_uart_init
    \/ Main_timer_init
    \/ Main_trap_init
    \/ Main_timer_set_callback
    \/ Main_enable_interrupts
    \/ Main_uart_puts
    \/ Main_idle

\* main() is entered with interrupts disabled and no trap vector; the
\* peripheral registers hold whatever was left in them.
Init ==
    /\ INTERRUPT_CORE0_CPU_INT_ENABLE_REG \in PriorWords
    /\ \E w \in PriorWords : INTERRUPT_SOURCE_MAP_REG = [s \in MatrixSources |-> w]
    /\ SYSTEM_PERIP_CLK_EN0_REG \in PriorSysWords
    /\ SYSTEM_PERIP_RST_EN0_REG \in PriorSysWords
    /\ timg \in TimgStates
    /\ timer_callback = NULL
    /\ mstatus_MIE = FALSE
    /\ mstatus_MPIE = FALSE
    /\ mtvec = "unset"
    /\ mcause = {}
    /\ pc = MainSequence[1]
    /\ trap = "none"
    /\ arg = 0
    /\ hist = << >>
    /\ writes = << >>
    /\ calls = << >>
    /\ txfifo_cnt = 0
    /\ stack = << >>

Next ==
    \/ Main
    \/ HW_TimerAlarm
    \/ HW_Interrupt
    \/ Run_trap_handler_c
    \/ TrapReturn

Spec ==
    Init /\ [][Next]_vars

\* The CPU keeps executing and the hardware keeps running.
FairSpec ==
    /\ Spec
    /\ WF_vars(Main)
    /\ WF_vars(HW_TimerAlarm)
    /\ WF_vars(HW_Interrupt)
    /\ WF_vars(Run_trap_handler_c)
    /\ WF_vars(TrapReturn)

(***************************************************************************)
(* The program step by step: uart_puts character by character, the trap    *)
(* handler call by call, the TX FIFO draining                              *)
(***************************************************************************)
\* The innermost activation and the stack without it or with it replaced.
Top ==
    stack[Len(stack)]

Pop ==
    SubSeq(stack, 1, Len(stack) - 1)

WithTop(f) ==
    [stack EXCEPT ![Len(stack)] = f]

Running(fn, at) ==
    /\ stack # << >>
    /\ Top.fn = fn
    /\ Top.at = at

\* uart_putc reads the TX FIFO count and tests it.
Uart_putc_read ==
    /\ Running("uart_puts", "read")
    /\ stack' = WithTop(uart_putc_read(Top, txfifo_cnt))
    /\ UNCHANGED << INTERRUPT_CORE0_CPU_INT_ENABLE_REG, INTERRUPT_SOURCE_MAP_REG,
                    SYSTEM_PERIP_CLK_EN0_REG, SYSTEM_PERIP_RST_EN0_REG,
                    timg, timer_callback, mstatus_MIE, mstatus_MPIE, mtvec, mcause,
                    pc, trap, arg, hist, writes, calls, txfifo_cnt >>

\* uart_putc writes the character to UART_FIFO_REG: the FIFO takes one byte.
Uart_putc_write ==
    /\ Running("uart_puts", "write")
    /\ txfifo_cnt' = txfifo_cnt + 1
    /\ stack' = WithTop(uart_putc_write(Top))
    /\ UNCHANGED << INTERRUPT_CORE0_CPU_INT_ENABLE_REG, INTERRUPT_SOURCE_MAP_REG,
                    SYSTEM_PERIP_CLK_EN0_REG, SYSTEM_PERIP_RST_EN0_REG,
                    timg, timer_callback, mstatus_MIE, mstatus_MPIE, mtvec, mcause,
                    pc, trap, arg, hist, writes, calls >>

\* uart_puts returns to its caller: to main() when no other activation is left.
Uart_puts_return ==
    /\ Running("uart_puts", "return")
    /\ stack' = Pop
    /\ pc' = IF Pop = << >> /\ pc = "uart_puts" THEN main_next(pc) ELSE pc
    /\ UNCHANGED << INTERRUPT_CORE0_CPU_INT_ENABLE_REG, INTERRUPT_SOURCE_MAP_REG,
                    SYSTEM_PERIP_CLK_EN0_REG, SYSTEM_PERIP_RST_EN0_REG,
                    timg, timer_callback, mstatus_MIE, mstatus_MPIE, mtvec, mcause,
                    trap, arg, hist, writes, calls, txfifo_cnt >>

\* The transmitter shifts one byte out of the TX FIFO.
HW_UartTx ==
    /\ txfifo_cnt > 0
    /\ txfifo_cnt' = txfifo_cnt - 1
    /\ UNCHANGED << INTERRUPT_CORE0_CPU_INT_ENABLE_REG, INTERRUPT_SOURCE_MAP_REG,
                    SYSTEM_PERIP_CLK_EN0_REG, SYSTEM_PERIP_RST_EN0_REG,
                    timg, timer_callback, mstatus_MIE, mstatus_MPIE, mtvec, mcause,
                    pc, trap, arg, hist, writes, calls, stack >>

\* main() calls uart_puts with the boot message.
Main_uart_puts_call ==
    /\ pc = "uart_puts"
    /\ trap = "none"
    /\ stack = << >>
    /\ stack' = << uart_puts_frame("KumoTrail has booted. Interrupts are enabled.\n") >>
    /\ UNCHANGED << INTERRUPT_CORE0_CPU_INT_ENABLE_REG, INTERRUPT_SOURCE_MAP_REG,
                    SYSTEM_PERIP_CLK_EN0_REG, SYSTEM_PERIP_RST_EN0_REG,
                    timg, timer_callback, mstatus_MIE, mstatus_MPIE, mtvec, mcause,
                    pc, trap, arg, hist, writes, calls, txfifo_cnt >>

\* Trap entry: as TrapEntry, and trap_handler_c is entered on top of whatever
\* is in progress.
TrapEnter(cause) ==
    /\ mcause' = cause
    /\ mstatus_MPIE' = mstatus_MIE
    /\ mstatus_MIE' = FALSE
    /\ trap' = IF mtvec = "_trap_handler" THEN "entered" ELSE "wild"
    /\ stack' = Append(stack, Frame("trap_handler_c", "dispatch", ""))
    /\ UNCHANGED << INTERRUPT_CORE0_CPU_INT_ENABLE_REG, INTERRUPT_SOURCE_MAP_REG,
                    SYSTEM_PERIP_CLK_EN0_REG, SYSTEM_PERIP_RST_EN0_REG,
                    timg, timer_callback, mtvec, pc, arg, hist, writes, calls,
                    txfifo_cnt >>

\* The CPU takes the timer's interrupt whenever MIE is set and it is pending.
HW_InterruptStep ==
    /\ mstatus_MIE
    /\ TimerLinePending
    /\ TrapEnter(WordOr(INTERRUPT_BIT,
           NatToWord(MappedLine(INTERRUPT_SOURCE_MAP_REG[INTERRUPT_SOURCE_TIMG0_T0]))))

\* trap_handler_c reads mcause and takes one of its three branches.
Handler_dispatch ==
    /\ Running("trap_handler_c", "dispatch")
    /\ trap = "entered"
    /\ stack' =
           IF trap_handler_c_path(mcause) = "timer"
               THEN WithTop([Top EXCEPT !.at = "timer_handle_interrupt"])
               ELSE Append(WithTop([Top EXCEPT !.at = "return"]),
                           uart_puts_frame(trap_handler_c_calls(mcause, NULL)[1][2]))
    /\ mstatus_MIE' = trap_handler_c_MIE(mstatus_MIE)
    /\ UNCHANGED << INTERRUPT_CORE0_CPU_INT_ENABLE_REG, INTERRUPT_SOURCE_MAP_REG,
                    SYSTEM_PERIP_CLK_EN0_REG, SYSTEM_PERIP_RST_EN0_REG,
                    timg, timer_callback, mstatus_MPIE, mtvec, mcause, pc, trap,
                    arg, hist, writes, calls, txfifo_cnt >>

\* timer_handle_interrupt clears the status bit and invokes the callback:
\* kernel_tick_handler calls uart_puts, any other callback returns at once.
Handler_timer_handle_interrupt ==
    /\ Running("trap_handler_c", "timer_handle_interrupt")
    /\ timg' = timer_clear_interrupt(timg)
    /\ stack' =
           IF timer_callback = "kernel_tick_handler"
               THEN Append(WithTop([Top EXCEPT !.at = "rearm"]),
                           uart_puts_frame(callback_calls(timer_callback)[2][2]))
               ELSE WithTop([Top EXCEPT !.at = "rearm"])
    /\ mstatus_MIE' = trap_handler_c_MIE(mstatus_MIE)
    /\ UNCHANGED << INTERRUPT_CORE0_CPU_INT_ENABLE_REG, INTERRUPT_SOURCE_MAP_REG,
                    SYSTEM_PERIP_CLK_EN0_REG, SYSTEM_PERIP_RST_EN0_REG,
                    timer_callback, mstatus_MPIE, mtvec, mcause, pc, trap, arg,
                    hist, writes, calls, txfifo_cnt >>

\* timer_handle_interrupt arms the alarm again and returns to trap_handler_c.
Handler_rearm ==
    /\ Running("trap_handler_c", "rearm")
    /\ timg' = timer_rearm_alarm(timg)
    /\ stack' = WithTop([Top EXCEPT !.at = "return"])
    /\ mstatus_MIE' = trap_handler_c_MIE(mstatus_MIE)
    /\ UNCHANGED << INTERRUPT_CORE0_CPU_INT_ENABLE_REG, INTERRUPT_SOURCE_MAP_REG,
                    SYSTEM_PERIP_CLK_EN0_REG, SYSTEM_PERIP_RST_EN0_REG,
                    timer_callback, mstatus_MPIE, mtvec, mcause, pc, trap, arg,
                    hist, writes, calls, txfifo_cnt >>

\* trap_handler_c returns and the exit stub returns to the interrupted
\* context, restoring MIE.
Handler_return ==
    /\ Running("trap_handler_c", "return")
    /\ stack' = Pop
    /\ mstatus_MIE' = mstatus_MPIE
    /\ trap' = IF \E i \in 1 .. Len(Pop) : Pop[i].fn = "trap_handler_c"
                   THEN "entered"
                   ELSE "none"
    /\ UNCHANGED << INTERRUPT_CORE0_CPU_INT_ENABLE_REG, INTERRUPT_SOURCE_MAP_REG,
                    SYSTEM_PERIP_CLK_EN0_REG, SYSTEM_PERIP_RST_EN0_REG,
                    timg, timer_callback, mstatus_MPIE, mtvec, mcause, pc, arg,
                    hist, writes, calls, txfifo_cnt >>

Handler ==
    \/ Handler_dispatch
    \/ Handler_timer_handle_interrupt
    \/ Handler_rearm
    \/ Handler_return

Uart ==
    \/ Uart_putc_read
    \/ Uart_putc_write
    \/ Uart_puts_return

\* main() is entered with interrupts disabled and no trap vector; the timer is
\* in its reset state or was left armed and routed to CPU line 6, with the CPU
\* lines all disabled or all enabled; the TX FIFO is empty or full.
InitSteps ==
    /\ INTERRUPT_CORE0_CPU_INT_ENABLE_REG \in DeliveryEnables
    /\ INTERRUPT_SOURCE_MAP_REG =
           [s \in MatrixSources |-> NatToWord(TIMER_INTERRUPT_ID)]
    /\ SYSTEM_PERIP_CLK_EN0_REG = {}
    /\ SYSTEM_PERIP_RST_EN0_REG = {}
    /\ timg \in {TimgReset, TimgArmed}
    /\ timer_callback = NULL
    /\ mstatus_MIE = FALSE
    /\ mstatus_MPIE = FALSE
    /\ mtvec = "unset"
    /\ mcause = {}
    /\ pc = MainSequence[1]
    /\ trap = "none"
    /\ arg = 0
    /\ hist = << >>
    /\ writes = << >>
    /\ calls = << >>
    /\ txfifo_cnt \in {0, UART_FIFO_DEPTH}
    /\ stack = << >>

NextSteps ==
    \/ Main_uart_init
    \/ Main_timer_init
    \/ Main_trap_init
    \/ Main_timer_set_callback
    \/ Main_enable_interrupts
    \/ Main_uart_puts_call
    \/ Main_idle
    \/ Uart
    \/ Handler
    \/ HW_UartTx
    \/ HW_TimerAlarmStep
    \/ HW_InterruptStep

SpecSteps ==
    InitSteps /\ [][NextSteps]_vars

(***************************************************************************)
(* trap_handler_c step by step, entered with any kind of cause             *)
(***************************************************************************)
\* The causes under test: the timer's interrupt, another interrupt, and an
\* exception.
StepCauses ==
    { WordOr(INTERRUPT_BIT, NatToWord(TIMER_INTERRUPT_ID)),
      WordOr(INTERRUPT_BIT, NatToWord(TIMER_INTERRUPT_ID + 1)),
      NatToWord(TIMER_INTERRUPT_ID) }

\* The timer with its alarm fired and its interrupt pending.
TimgFired ==
    [en |-> TRUE, alarm_en |-> FALSE, int_ena |-> TRUE, int_raw |-> TRUE]

\* A trap with the cause under test is taken: an interrupt whenever MIE is
\* set, an exception whenever normal context is running.
Trap_cause_step ==
    /\ pc = "trap"
    /\ IF WordAnd(arg, INTERRUPT_BIT) # {} THEN mstatus_MIE ELSE stack = << >>
    /\ TrapEnter(arg)

\* The trap vector is installed and interrupts are globally enabled; the
\* callback slot is empty or holds kernel_tick_handler; the TX FIFO is empty,
\* at the threshold of uart_putc or full.
InitTrapSteps ==
    /\ INTERRUPT_CORE0_CPU_INT_ENABLE_REG = {}
    /\ INTERRUPT_SOURCE_MAP_REG = [s \in MatrixSources |-> {}]
    /\ SYSTEM_PERIP_CLK_EN0_REG = {}
    /\ SYSTEM_PERIP_RST_EN0_REG = {}
    /\ timg = TimgFired
    /\ timer_callback \in {NULL, "kernel_tick_handler"}
    /\ mstatus_MIE = TRUE
    /\ mstatus_MPIE = FALSE
    /\ mtvec = "_trap_handler"
    /\ mcause = {}
    /\ pc = "trap"
    /\ trap = "none"
    /\ arg \in StepCauses
    /\ hist = << >>
    /\ writes = << >>
    /\ calls = << >>
    /\ txfifo_cnt \in {0, UART_FIFO_THRESHOLD, UART_FIFO_DEPTH}
    /\ stack = << >>

NextTrapSteps ==
    \/ Trap_cause_step
    \/ Handler
    \/ Uart
    \/ HW_UartTx

SpecTrapSteps ==
    InitTrapSteps /\ [][NextTrapSteps]_vars

\* The CPU keeps executing the handler and the transmitter keeps sending.
FairSpecTrapSteps ==
    /\ SpecTrapSteps
    /\ WF_vars(Handler)
    /\ WF_vars(Uart)
    /\ WF_vars(HW_UartTx)

(***************************************************************************)
(* Properties                                                              *)
(***************************************************************************)
\* The last event and the one before it.
LastEvent ==
    hist[Len(hist)]

PrevEvent ==
    hist[Len(hist) - 1]

LastOpIs(op) ==
    Len(hist) >= 1 /\ LastEvent.op = op

LastTwoOpsAre(op1, op2) ==
    Len(hist) >= 2 /\ PrevEvent.op = op1 /\ LastEvent.op = op2

ValidLine(n) ==
    n >= 0 /\ n <= 31

\* interrupt_enable(arg) has just been followed by interrupt_disable(arg).
EnabledThenDisabled ==
    /\ LastTwoOpsAre("interrupt_enable", "interrupt_disable")
    /\ PrevEvent.arg = arg /\ LastEvent.arg = arg
    /\ ValidLine(arg)

\* C7 as stated: for every cpu_line in [0,31] and every prior value of the
\* CPU-interrupt-enable register, interrupt_enable(cpu_line) followed by
\* interrupt_disable(cpu_line) returns the register to its prior value.
C7_EnableDisableRestoresPrior ==
    EnabledThenDisabled =>
        INTERRUPT_CORE0_CPU_INT_ENABLE_REG = PrevEvent.pre.ie

\* C7 amended: interrupt_enable(cpu_line) followed by
\* interrupt_disable(cpu_line) leaves bit cpu_line clear and every other bit at
\* its prior value, so the register returns to its prior value when bit
\* cpu_line was clear before.
C7_EnableDisableClearsLine ==
    EnabledThenDisabled =>
        /\ arg \notin INTERRUPT_CORE0_CPU_INT_ENABLE_REG
        /\ \A b \in Bits \ {arg} :
              b \in INTERRUPT_CORE0_CPU_INT_ENABLE_REG <=> b \in PrevEvent.pre.ie
        /\ (arg \notin PrevEvent.pre.ie =>
              INTERRUPT_CORE0_CPU_INT_ENABLE_REG = PrevEvent.pre.ie)

C7_Witness ==
    /\ EnabledThenDisabled
    /\ arg = 31
    /\ PrevEvent.pre.ie = NatToWord(1431655765)
    /\ INTERRUPT_CORE0_CPU_INT_ENABLE_REG = PrevEvent.pre.ie

\* C8: for every cpu_line outside [0,31], interrupt_enable(cpu_line) and
\* interrupt_disable(cpu_line) are no-ops: the CPU-interrupt-enable register
\* and every mapping register are unchanged, nothing is written and nothing
\* is reported.
C8_OutOfRangeLineIsNoOp ==
    ( /\ LastOpIs("interrupt_enable") \/ LastOpIs("interrupt_disable")
      /\ LastEvent.arg = arg
      /\ ~ValidLine(arg) ) =>
        /\ INTERRUPT_CORE0_CPU_INT_ENABLE_REG = LastEvent.pre.ie
        /\ INTERRUPT_SOURCE_MAP_REG = LastEvent.pre.map
        /\ writes = << >>
        /\ calls = << >>

C8_Witness ==
    /\ LastTwoOpsAre("interrupt_enable", "interrupt_disable")
    /\ arg = 32
    /\ PrevEvent.pre.ie = {}
    /\ INTERRUPT_CORE0_CPU_INT_ENABLE_REG = {}

\* The bit of a peripheral in the clock-enable and in the reset register.
PeripheralBit(p) ==
    CASE p = 0 -> 2
      [] p = 1 -> 5
      [] p = 2 -> 13
      [] p = 3 -> 15

DefinedPeripheral(p) ==
    p \in {PERIPH_UART0, PERIPH_UART1, PERIPH_TIMG0, PERIPH_TIMG1}

\* C9: for every defined peripheral P and every prior register value, after
\* sysctl_enable_clock(P) the clock-enable bit of P is set, and a second
\* sysctl_enable_clock(P) leaves the register as the first call left it.
C9_EnableClockSetsBitIdempotent ==
    ( LastOpIs("sysctl_enable_clock") /\ DefinedPeripheral(arg) ) =>
        /\ PeripheralBit(arg) \in SYSTEM_PERIP_CLK_EN0_REG
        /\ \A b \in Bits \ {PeripheralBit(arg)} :
              b \in SYSTEM_PERIP_CLK_EN0_REG <=> b \in LastEvent.pre.clk
        /\ (LastTwoOpsAre("sysctl_enable_clock", "sysctl_enable_clock") =>
              SYSTEM_PERIP_CLK_EN0_REG = LastEvent.pre.clk)

C9_Witness ==
    /\ LastTwoOpsAre("sysctl_enable_clock", "sysctl_enable_clock")
    /\ arg = PERIPH_TIMG0
    /\ PrevEvent.pre.clk = {}
    /\ SYSTEM_PERIP_CLK_EN0_REG = {13}

\* C10: for every defined peripheral P and every prior register value,
\* sysctl_reset_peripheral(P) asserts P's reset bit and then de-asserts it: on
\* return the bit is clear and every other bit of the reset register has its
\* prior value.
C10_ResetAssertsThenDeasserts ==
    ( LastOpIs("sysctl_reset_peripheral") /\ DefinedPeripheral(arg) ) =>
        /\ Len(writes) = 2
        /\ \A i \in 1 .. 2 : writes[i][1] = "SYSTEM_PERIP_RST_EN0_REG"
        /\ PeripheralBit(arg) \in writes[1][2]
        /\ PeripheralBit(arg) \notin writes[2][2]
        /\ PeripheralBit(arg) \notin SYSTEM_PERIP_RST_EN0_REG
        /\ \A b \in Bits \ {PeripheralBit(arg)} :
              /\ b \in SYSTEM_PERIP_RST_EN0_REG <=> b \in LastEvent.pre.rst
              /\ b \in writes[1][2] <=> b \in LastEvent.pre.rst

C10_Witness ==
    /\ LastOpIs("sysctl_reset_peripheral")
    /\ arg = PERIPH_TIMG0
    /\ LastEvent.pre.rst = Bits
    /\ SYSTEM_PERIP_RST_EN0_REG = Bits \ {13}

\* The calls made to a function by the last operation.
CallsTo(fn) ==
    { i \in 1 .. Len(calls) : calls[i][1] = fn }

Emitted(text) ==
    \E i \in 1 .. Len(calls) : calls[i] = << "uart_puts", text >>

\* trap_handler_c has just run and has called timer_handle_interrupt.
TimerHandlerRan ==
    /\ LastOpIs("trap_handler_c")
    /\ CallsTo("timer_handle_interrupt") # {}

\* C1: after timer_handle_interrupt() has run once the interrupt-status bit is
\* clear, the alarm-enable bit is set, and a callback registered at entry has
\* been invoked exactly once during that run.
C1_HandlerClearsRearmsAndCallsOnce ==
    TimerHandlerRan =>
        /\ ~IntSt(timg)
        /\ timg.alarm_en
        /\ Cardinality(CallsTo("timer_handle_interrupt")) = 1
        /\ (LastEvent.pre.cb # NULL =>
              Cardinality(CallsTo(LastEvent.pre.cb)) = 1)

C1_Witness ==
    /\ TimerHandlerRan
    /\ LastEvent.pre.cb = "cb_A"
    /\ IntSt(LastEvent.pre.timg)
    /\ ~LastEvent.pre.timg.alarm_en
    /\ CallsTo("cb_A") # {}

\* C3: for every value of mcause trap_handler_c takes exactly one of three
\* paths: interrupt bit set and low 31 bits equal to 6, the timer handler is
\* called and no diagnostic is emitted; interrupt bit set and any other low 31
\* bits, the unknown-interrupt diagnostic is emitted and the timer handler is
\* not called; interrupt bit clear, the exception diagnostic is emitted and
\* the timer handler is not called.
C3_TrapDispatchThreePaths ==
    LastOpIs("trap_handler_c") =>
        LET cause    == LastEvent.pre.mcause
            high     == 31 \in cause
            low_is_6 == (cause \ {31}) = {1, 2}
            timer    == CallsTo("timer_handle_interrupt") # {}
            unknown  == Emitted("Unknown interrupt occurred\n")
            except   == Emitted("An exception occurred\n")
        IN  /\ (high /\ low_is_6) => (timer /\ ~unknown /\ ~except)
            /\ (high /\ ~low_is_6) => (unknown /\ ~timer /\ ~except)
            /\ ~high => (except /\ ~timer /\ ~unknown)

C3_Witness ==
    /\ LastOpIs("trap_handler_c")
    /\ LastEvent.pre.mcause = {1, 2, 31}
    /\ calls[1] = << "timer_handle_interrupt", "" >>
    /\ trap = "none"

\* Callback A was registered, then callback B, then timer_handle_interrupt ran.
RegisteredTwiceThenTick ==
    /\ Len(hist) >= 3
    /\ hist[Len(hist) - 2].op = "timer_set_callback"
    /\ hist[Len(hist) - 2].name # NULL
    /\ PrevEvent.op = "timer_set_callback"
    /\ PrevEvent.name # NULL
    /\ PrevEvent.name # hist[Len(hist) - 2].name
    /\ TimerHandlerRan

\* C4: registering callback A, then callback B, then running
\* timer_handle_interrupt() once results in exactly one callback invocation,
\* of B and not of A.
C4_LastRegisteredCallbackOnly ==
    RegisteredTwiceThenTick =>
        /\ Cardinality(CallsTo(PrevEvent.name)) = 1
        /\ CallsTo(hist[Len(hist) - 2].name) = {}
        /\ Len(calls) = 2

C4_Witness ==
    /\ RegisteredTwiceThenTick
    /\ hist[Len(hist) - 2].name = "cb_A"
    /\ PrevEvent.name = "cb_B"
    /\ calls = << << "timer_handle_interrupt", "" >>, << "cb_B", "" >> >>

\* A statement of main() has returned.
Returned(stmt) ==
    MainIndex(pc) > MainIndex(stmt)

\* C5: in the boot sequence the machine-interrupt-enable bit is set, and so a
\* trap can be taken, only after trap_init() has written the trap vector,
\* timer_init() has returned and the tick callback has been registered.
C5_InterruptsEnabledAfterSetup ==
    (mstatus_MIE \/ trap # "none") =>
        /\ mtvec = "_trap_handler"
        /\ trap # "wild"
        /\ Returned("uart_init")
        /\ Returned("timer_init")
        /\ Returned("trap_init")
        /\ timer_callback = "kernel_tick_handler"

C5_Witness ==
    /\ trap = "entered"
    /\ pc = "uart_puts"
    /\ ~mstatus_MIE
    /\ mstatus_MPIE

\* The positions in the write log of the writes to a register.
WritesTo(name) ==
    { i \in 1 .. Len(writes) : writes[i][1] = name }

\* Every write to one register comes before every write to another, and both
\* registers are written.
WrittenBefore(first, second) ==
    /\ WritesTo(first) # {}
    /\ WritesTo(second) # {}
    /\ \A i \in WritesTo(first) : \A j \in WritesTo(second) : i < j

\* C6 as stated: within timer_init() the clock is gated on and the peripheral
\* reset first; the alarm threshold and the divider are programmed before the
\* counter is enabled; the interrupt source is routed and its CPU line enabled
\* before the timer's interrupt-enable bit is set; the write that enables the
\* counter with the alarm armed is the last one.
C6_TimerInitWriteOrder ==
    LastOpIs("timer_init") =>
        /\ WrittenBefore("SYSTEM_PERIP_CLK_EN0_REG", "SYSTEM_PERIP_RST_EN0_REG")
        /\ WrittenBefore("SYSTEM_PERIP_RST_EN0_REG", "TIMG_0_T0ALARMLO_REG")
        /\ WritesTo("TIMG_0_T0CONFIG_REG") # {}
        /\ \A i \in WritesTo("TIMG_0_T0ALARMLO_REG") : i < Len(writes)
        /\ WrittenBefore("INTERRUPT_SOURCE_MAP_REG", "TIMG_0_INT_ENA_TIMERS_REG")
        /\ WrittenBefore("INTERRUPT_CORE0_CPU_INT_ENABLE_REG",
                         "TIMG_0_INT_ENA_TIMERS_REG")
        /\ writes[Len(writes)][1] = "TIMG_0_T0CONFIG_REG"
        /\ timg.en /\ timg.alarm_en /\ timg.int_ena

\* The tick callback has just been invoked from a trap.
TickInvoked ==
    /\ trap = "done"
    /\ CallsTo("kernel_tick_handler") # {}

\* main() starts with the timer, its route and the CPU lines in their reset
\* state.
BootFromReset ==
    /\ timg = TimgReset
    /\ INTERRUPT_CORE0_CPU_INT_ENABLE_REG = {}
    /\ INTERRUPT_SOURCE_MAP_REG[INTERRUPT_SOURCE_TIMG0_T0] = {}

\* C2 as stated: after the boot sequence of main() the timer fires
\* periodically and every firing leads to a trap that invokes the registered
\* tick callback, so under fair hardware progress the callback is invoked
\* infinitely often.
C2_TickInvokedInfinitelyOften ==
    BootFromReset => []<>TickInvoked

\* One of the two functions of the gate has just been called with a value
\* outside the enumeration.
UndefinedPeripheralCalled ==
    /\ LastOpIs("sysctl_enable_clock") \/ LastOpIs("sysctl_reset_peripheral")
    /\ LastEvent.arg = arg
    /\ ~DefinedPeripheral(arg)

\* C11: for any peripheral value outside the defined enumeration,
\* sysctl_enable_clock and sysctl_reset_peripheral are no-ops: neither the
\* clock-enable register nor the reset register is written, and no error is
\* signalled.
C11_UndefinedPeripheralIsNoOp ==
    UndefinedPeripheralCalled =>
        /\ writes = << >>
        /\ calls = << >>
        /\ SYSTEM_PERIP_CLK_EN0_REG = LastEvent.pre.clk
        /\ SYSTEM_PERIP_RST_EN0_REG = LastEvent.pre.rst

C11_Witness ==
    /\ LastTwoOpsAre("sysctl_enable_clock", "sysctl_reset_peripheral")
    /\ arg = PERIPH_TIMG1 + 1
    /\ PrevEvent.pre.clk = NatToWord(1431655765)
    /\ SYSTEM_PERIP_CLK_EN0_REG = NatToWord(1431655765)
    /\ SYSTEM_PERIP_RST_EN0_REG = LastEvent.pre.rst

\* C12 as stated: enabling the clock of a UART peripheral (PERIPH_UART0 or
\* PERIPH_UART1) with sysctl_enable_clock also sets the shared UART memory
\* clock enable bit, bit 24 of the clock-enable register, as uart_init does.
C12_UartClockEnablesSharedMemClock ==
    ( /\ LastOpIs("sysctl_enable_clock")
      /\ arg \in {PERIPH_UART0, PERIPH_UART1} ) =>
        WordAnd(SYSTEM_PERIP_CLK_EN0_REG, SYSTEM_UART_MEM_CLK_EN) # {}

\* C13 as stated: with peripheral clock 80,000,000 Hz, prescaler 1600 and
\* target tick 100 Hz, timer_init() programs the alarm low-word register with
\* exactly 500 (floor(80000000 / 1600 / 100)) and the alarm high word with zero.
C13_AlarmThresholdIs500 ==
    LastOpIs("timer_init") =>
        LET lo == WritesTo("TIMG_0_T0ALARMLO_REG")
            hi == WritesTo("TIMG_0_T0ALARMHI_REG")
        IN  /\ lo # {}
            /\ hi # {}
            /\ \A i \in lo : (\A j \in lo : j <= i) =>
                   writes[i][2] = NatToWord((80000000 \div 1600) \div 100)
            /\ \A i \in hi : (\A j \in hi : j <= i) => writes[i][2] = {}

\* C18: for every cpu_line in [0,31], 31 included, interrupt_enable changes at
\* most bit cpu_line of the CPU-interrupt-enable register, to 1, and
\* interrupt_disable changes at most that bit, to 0; the other 31 bits and
\* every mapping register are unchanged; interrupt_route for a defined source
\* changes only that source's mapping register and never the enable register.
C18_RouterFrame ==
    ( Len(hist) >= 1 /\ LastEvent.arg = arg /\ ValidLine(arg) ) =>
        LET ie     == INTERRUPT_CORE0_CPU_INT_ENABLE_REG
            before == LastEvent.pre
            others == \A b \in Bits \ {arg} : b \in ie <=> b \in before.ie
        IN  /\ LastOpIs("interrupt_enable") =>
                  /\ arg \in ie
                  /\ others
                  /\ INTERRUPT_SOURCE_MAP_REG = before.map
            /\ LastOpIs("interrupt_disable") =>
                  /\ arg \notin ie
                  /\ others
                  /\ INTERRUPT_SOURCE_MAP_REG = before.map
            /\ LastOpIs("interrupt_route") =>
                  /\ ie = before.ie
                  /\ \A s \in MatrixSources \ {INTERRUPT_SOURCE_TIMG0_T0} :
                        INTERRUPT_SOURCE_MAP_REG[s] = before.map[s]

C18_Witness ==
    /\ Len(hist) = 3
    /\ hist[1].op = "interrupt_route"
    /\ hist[2].op = "interrupt_enable"
    /\ hist[3].op = "interrupt_disable"
    /\ arg = WordBits - 1
    /\ hist[1].pre.ie = NatToWord(1431655765)
    /\ hist[3].pre.ie = NatToWord(1431655765) \cup Bit(WordBits - 1)
    /\ INTERRUPT_CORE0_CPU_INT_ENABLE_REG = NatToWord(1431655765)
    /\ INTERRUPT_SOURCE_MAP_REG[INTERRUPT_SOURCE_TIMG0_T0] = NatToWord(31)
    /\ INTERRUPT_SOURCE_MAP_REG[INTERRUPT_SOURCE_TIMG0_T0 + 1] = hist[1].pre.map[INTERRUPT_SOURCE_TIMG0_T0 + 1]

\* The CPU line the timer's interrupt source is routed to, and whether its
\* enable bit is clear.
TimerLine ==
    MappedLine(INTERRUPT_SOURCE_MAP_REG[INTERRUPT_SOURCE_TIMG0_T0])

TimerLineOff ==
    TimerLine \notin INTERRUPT_CORE0_CPU_INT_ENABLE_REG

\* The step is an operation of the given name.
StepIs(op) ==
    /\ hist' # hist
    /\ hist'[Len(hist')].op = op

SetCallbackEvents ==
    { i \in 1 .. Len(hist) : hist[i].op = "timer_set_callback" }

LastSetCallback ==
    hist[CHOOSE i \in SetCallbackEvents : \A j \in SetCallbackEvents : j <= i]

\* The callbacks the last run of trap_handler_c invoked, as positions in calls.
CallbackCalls ==
    { i \in 1 .. Len(calls) :
         calls[i][1] \notin {"timer_handle_interrupt", "uart_puts"} }

\* C15: when timer_set_callback replaces the callback in normal context with
\* interrupts globally enabled, a timer interrupt that fires at any point
\* invokes the old callback or the new one (none at all where that one is the
\* empty slot), never a value that is neither, and at most one of them.
C15_InterruptSeesOldOrNewCallback ==
    ( TimerHandlerRan /\ SetCallbackEvents # {} ) =>
        LET old == LastSetCallback.pre.cb
            new == LastSetCallback.name
        IN  /\ Cardinality(CallbackCalls) <= 1
            /\ \A i \in CallbackCalls : calls[i][1] \in {old, new} \ {NULL}
            /\ CallbackCalls = {} => NULL \in {old, new}
            /\ LastEvent.pre.cb \in {old, new}

\* The interrupt fired between the call of timer_set_callback(cb_B) and its
\* store, and invoked the old callback cb_A.
C15_Witness ==
    /\ TimerHandlerRan
    /\ SetCallbackEvents # {}
    /\ pc = "timer_set_callback:store"
    /\ LastSetCallback.pre.cb = "cb_A"
    /\ LastSetCallback.name = "cb_B"
    /\ calls = << << "timer_handle_interrupt", "" >>, << "cb_A", "" >> >>
    /\ trap = "none"

\* The activations of uart_puts in progress, as positions in the stack.
PutsActivations ==
    { i \in 1 .. Len(stack) : stack[i].fn = "uart_puts" }

C20_TxFifoNeverOverflows ==
    [][ /\ ( /\ Running("uart_puts", "read")
              /\ stack' = WithTop([Top EXCEPT !.at = "write"]) ) =>
                 txfifo_cnt < UART_FIFO_DEPTH - 1
        /\ txfifo_cnt' > txfifo_cnt =>
              /\ Running("uart_puts", "write")
              /\ txfifo_cnt' = txfifo_cnt + 1
        /\ txfifo_cnt <= UART_FIFO_DEPTH
        /\ txfifo_cnt' <= UART_FIFO_DEPTH
      ]_vars

\* The boot message is being sent by main(), the tick handler has sent
\* "Tick!\n" from a trap taken between uart_putc's read and its write, and the
\* write that was waiting has filled the FIFO to its depth.
C20_Witness ==
    /\ pc = "uart_puts"
    /\ Len(stack) = 1
    /\ Top.fn = "uart_puts"
    /\ Top.i >= 1
    /\ mstatus_MPIE
    /\ trap = "none"
    /\ txfifo_cnt = UART_FIFO_DEPTH

\* The activations of trap_handler_c in progress, as positions in the stack.
HandlerActivations ==
    { i \in 1 .. Len(stack) : stack[i].fn = "trap_handler_c" }

\* C16: every invocation of trap_handler_c terminates and returns to the
\* interrupted context, on the timer path and on the two diagnostic paths with
\* their busy-wait on the TX FIFO count: there is no stuck state.
C16_TrapHandlerReturns ==
    (HandlerActivations # {}) ~>
        (stack = << >> /\ trap = "none" /\ mstatus_MIE /\ pc = "trap")

\* trap_handler_c, entered for an exception, is part-way through its
\* diagnostic and uart_putc is waiting for the TX FIFO, which its own bytes
\* have filled to the threshold, to drain.
C16_Witness ==
    /\ Len(stack) = 2
    /\ stack[1].fn = "trap_handler_c"
    /\ trap_handler_c_path(mcause) = "exception"
    /\ Running("uart_puts", "read")
    /\ Top.i >= 1
    /\ txfifo_cnt = UART_FIFO_DEPTH - 1

\* C17: trap handling is never nested: while trap_handler_c is in progress
\* (its dispatch, the timer handler, the tick callback, the diagnostic output)
\* the machine-interrupt-enable bit stays clear, and at most one activation of
\* trap_handler_c is in progress in every reachable state.
C17_TrapHandlingNeverNested ==
    /\ Cardinality(HandlerActivations) <= 1
    /\ HandlerActivations # {} => ~mstatus_MIE

\* The tick callback is sending "Tick!\n" inside trap_handler_c while the
\* interrupt under test is still requested: it is not taken.
C17_Witness ==
    /\ Len(stack) = 2
    /\ stack[1].fn = "trap_handler_c"
    /\ Running("uart_puts", "write")
    /\ Top.s = "Tick!\n"
    /\ WordAnd(arg, INTERRUPT_BIT) # {}
    /\ ~mstatus_MIE
    /\ mstatus_MPIE

====
